---- MODULE Spec2Model ----
(***************************************************************************)
(* TaskLock incremental build script (build_incremental.py).               *)
(*                                                                         *)
(* The module holds a static table of build steps and three functions:     *)
(* update_project_file(step), test_build() and main().  Both helpers are   *)
(* placeholders that only print; main() prints a banner and then one block *)
(* of three lines per step.  The script is either run directly (main() is  *)
(* called once) or imported, after which the importer may call the three   *)
(* functions one after the other.                                          *)
(*                                                                         *)
(* A printed line is modelled as the sequence of the string pieces the     *)
(* f-string / join puts together, stdout as the sequence of lines.         *)
(***************************************************************************)
EXTENDS Integers, Sequences, FiniteSets, TLC

\* Number of top-level calls an importer of the module makes.
MaxCalls == 2

\* The literal list of step dictionaries.
StepTable ==
    <<
        [name |-> "Step 1: SwiftUI + Models",
         files |-> <<"TaskLockApp.swift", "ContentView.swift", "Models.swift">>,
         frameworks |-> <<"SwiftUI">>],
        [name |-> "Step 2: Add PersistenceController",
         files |-> <<"TaskLockApp.swift", "ContentView.swift", "Models.swift", "PersistenceController.swift">>,
         frameworks |-> <<"SwiftUI">>],
        [name |-> "Step 3: Add Combine Framework",
         files |-> <<"TaskLockApp.swift", "ContentView.swift", "Models.swift", "PersistenceController.swift">>,
         frameworks |-> <<"SwiftUI", "Combine">>],
        [name |-> "Step 4: Add NotificationManager",
         files |-> <<"TaskLockApp.swift", "ContentView.swift", "Models.swift", "PersistenceController.swift", "NotificationManager.swift">>,
         frameworks |-> <<"SwiftUI", "Combine", "UserNotifications">>],
        [name |-> "Step 5: Add TaskManager",
         files |-> <<"TaskLockApp.swift", "ContentView.swift", "Models.swift", "PersistenceController.swift", "NotificationManager.swift", "TaskManager.swift">>,
         frameworks |-> <<"SwiftUI", "Combine", "UserNotifications">>],
        [name |-> "Step 6: Add BlockingManager",
         files |-> <<"TaskLockApp.swift", "ContentView.swift", "Models.swift", "PersistenceController.swift", "NotificationManager.swift", "TaskManager.swift", "BlockingManager.swift">>,
         frameworks |-> <<"SwiftUI", "Combine", "UserNotifications", "FamilyControls", "ManagedSettings", "DeviceActivity">>],
        [name |-> "Step 7: Add PolicyEngine",
         files |-> <<"TaskLockApp.swift", "ContentView.swift", "Models.swift", "PersistenceController.swift", "NotificationManager.swift", "TaskManager.swift", "BlockingManager.swift", "PolicyEngine.swift">>,
         frameworks |-> <<"SwiftUI", "Combine", "UserNotifications", "FamilyControls", "ManagedSettings", "DeviceActivity">>],
        [name |-> "Step 8: Add AnalyticsManager",
         files |-> <<"TaskLockApp.swift", "ContentView.swift", "Models.swift", "PersistenceController.swift", "NotificationManager.swift", "TaskManager.swift", "BlockingManager.swift", "PolicyEngine.swift", "AnalyticsManager.swift">>,
         frameworks |-> <<"SwiftUI", "Combine", "UserNotifications", "FamilyControls", "ManagedSettings", "DeviceActivity">>],
        [name |-> "Step 9: Add PhysicalUnlockManager",
         files |-> <<"TaskLockApp.swift", "ContentView.swift", "Models.swift", "PersistenceController.swift", "NotificationManager.swift", "TaskManager.swift", "BlockingManager.swift", "PolicyEngine.swift", "AnalyticsManager.swift", "PhysicalUnlockManager.swift">>,
         frameworks |-> <<"SwiftUI", "Combine", "UserNotifications", "FamilyControls", "ManagedSettings", "DeviceActivity">>],
        [name |-> "Step 10: Add AppState",
         files |-> <<"TaskLockApp.swift", "ContentView.swift", "Models.swift", "PersistenceController.swift", "NotificationManager.swift", "TaskManager.swift", "BlockingManager.swift", "PolicyEngine.swift", "AnalyticsManager.swift", "PhysicalUnlockManager.swift", "AppState.swift">>,
         frameworks |-> <<"SwiftUI", "Combine", "UserNotifications", "FamilyControls", "ManagedSettings", "DeviceActivity">>],
        [name |-> "Step 11: Add Charts Framework",
         files |-> <<"TaskLockApp.swift", "ContentView.swift", "Models.swift", "PersistenceController.swift", "NotificationManager.swift", "TaskManager.swift", "BlockingManager.swift", "PolicyEngine.swift", "AnalyticsManager.swift", "PhysicalUnlockManager.swift", "AppState.swift">>,
         frameworks |-> <<"SwiftUI", "Combine", "UserNotifications", "FamilyControls", "ManagedSettings", "DeviceActivity", "Charts">>],
        [name |-> "Step 12: Add MainTabView",
         files |-> <<"TaskLockApp.swift", "ContentView.swift", "Models.swift", "PersistenceController.swift", "NotificationManager.swift", "TaskManager.swift", "BlockingManager.swift", "PolicyEngine.swift", "AnalyticsManager.swift", "PhysicalUnlockManager.swift", "AppState.swift", "MainTabView.swift">>,
         frameworks |-> <<"SwiftUI", "Combine", "UserNotifications", "FamilyControls", "ManagedSettings", "DeviceActivity", "Charts">>],
        [name |-> "Step 13: Add All View Components",
         files |-> <<"TaskLockApp.swift", "ContentView.swift", "Models.swift", "PersistenceController.swift", "NotificationManager.swift", "TaskManager.swift", "BlockingManager.swift", "PolicyEngine.swift", "AnalyticsManager.swift", "PhysicalUnlockManager.swift", "AppState.swift", "MainTabView.swift", "TaskViews.swift", "AddEditTaskViews.swift", "CategoryViews.swift", "AnalyticsViews.swift", "SettingsViews.swift", "BlockingOverlay.swift">>,
         frameworks |-> <<"SwiftUI", "Combine", "UserNotifications", "FamilyControls", "ManagedSettings", "DeviceActivity", "Charts">>]
    >>

\* A catalog whose step 5 lists two modules in a different order than step 4.
BUILD_STEPS_reordered ==
    [StepTable EXCEPT ![5].files =
        <<"TaskLockApp.swift", "Models.swift", "ContentView.swift",
          "PersistenceController.swift", "NotificationManager.swift",
          "TaskManager.swift">>]

\* A catalog whose step 7 no longer links Combine.
BUILD_STEPS_dropped_framework ==
    [StepTable EXCEPT ![7].frameworks =
        <<"SwiftUI", "UserNotifications", "FamilyControls",
          "ManagedSettings", "DeviceActivity">>]

\* A catalog whose step 10 repeats the module list of step 9.
BUILD_STEPS_noop_step ==
    [StepTable EXCEPT ![10].files = StepTable[9].files]

\* The module global BUILD_STEPS.
BUILD_STEPS == StepTable

Range(s) == {s[j] : j \in 1..Len(s)}

IsPrefix(a, b) ==
    /\ Len(a) <= Len(b)
    /\ \A j \in 1..Len(a) : a[j] = b[j]

\* sep.join(seq)
RECURSIVE join(_, _)
join(sep, seq) ==
    IF Len(seq) = 0 THEN <<>>
    ELSE IF Len(seq) = 1 THEN <<seq[1]>>
    ELSE <<seq[1], sep>> \o join(sep, Tail(seq))

\* enumerate() that ignores its start argument and counts from 0.
enumerate_from_zero(seq, start) ==
    [k \in 1..Len(seq) |-> [i |-> k - 1, step |-> seq[k]]]

\* enumerate(seq, start): the pairs (start + position, item).
enumerate(seq, start) ==
    [k \in 1..Len(seq) |-> [i |-> start + k - 1, step |-> seq[k]]]

\* "=" * n
repeat(s, n) == [j \in 1..n |-> s]

VARIABLES
    name,       \* __name__ of the module: "__main__" or the import name
    pc,         \* "load", "idle", "main", "loop", "exit"
    ncalls,     \* top-level calls made by the importer
    iter,       \* items of enumerate(BUILD_STEPS, 1) consumed by the for loop
    i,          \* the loop variable i of main()
    steps,      \* the list BUILD_STEPS
    out,        \* stdout: the lines printed so far
    project,    \* configuration held by project.pbxproj (0: as found on disk)
    builds,     \* configurations xcodebuild has been run on, in order
    world       \* what a build of each step's configuration would report

vars == <<name, pc, ncalls, iter, i, steps, out, project, builds, world>>

\* The part of the state the three functions can touch.
Mem == [steps |-> steps, out |-> out, project |-> project, builds |-> builds]

\* print(line)
print(m, line) == [m EXCEPT !.out = Append(@, line)]

UpdatingLine(step) == <<"Updating project for ", step.name>>
TestingLine == <<"Testing build...">>
BannerLine == <<"TaskLock Incremental Build Script">>
RuleLine == repeat("=", 40)
HeaderLine(n, step) == <<"\n", ToString(n), ". ", step.name>>
FilesLine(step) == <<"   Files: ">> \o join(", ", step.files)
FrameworksLine(step) == <<"   Frameworks: ">> \o join(", ", step.frameworks)

\* update_project_file that rewrites the step it is given.
update_project_file_mutating(m, k) ==
    [print(m, UpdatingLine(m.steps[k])) EXCEPT
        !.steps[k].files = Append(@, "project.pbxproj")]

\* update_project_file(step), called with the k-th step of the list.
update_project_file(m, k) == print(m, UpdatingLine(m.steps[k]))

\* test_build()
test_build(m) == print(m, TestingLine)

\* The two banner prints at the top of main().
main_banner(m) == print(print(m, BannerLine), RuleLine)

\* A loop body that also configures and builds the step.
loop_body_building(m, n, k) ==
    test_build(update_project_file(
        print(print(print(m, HeaderLine(n, m.steps[k])),
                    FilesLine(m.steps[k])),
              FrameworksLine(m.steps[k])), k))

\* One iteration of the for loop of main(): i = n, step = the k-th step.
loop_body(m, n, k) ==
    print(print(print(m, HeaderLine(n, m.steps[k])),
                FilesLine(m.steps[k])),
          FrameworksLine(m.steps[k]))

\* What building each step's configuration would report: every step builds,
\* step k is the first that fails (and fails every time), or step k times
\* out three times before it builds.
Worlds ==
    {[kind |-> "ok", k |-> 0]}
    \cup {[kind |-> "fail", k |-> k] : k \in 1..Len(BUILD_STEPS)}
    \cup {[kind |-> "flaky", k |-> k] : k \in 1..Len(BUILD_STEPS)}

Store(m) ==
    /\ steps' = m.steps
    /\ out' = m.out
    /\ project' = m.project
    /\ builds' = m.builds

Init ==
    /\ name \in {"__main__", "build_incremental"}
    /\ pc = "load"
    /\ ncalls = 0
    /\ iter = 0
    /\ i = 0
    /\ steps = BUILD_STEPS
    /\ out = <<>>
    /\ project = 0
    /\ builds = <<>>
    /\ world \in Worlds

\* if __name__ == "__main__": main()
RunAsScript ==
    /\ pc = "load"
    /\ name = "__main__"
    /\ pc' = "main"
    /\ UNCHANGED <<name, ncalls, iter, i, steps, out, project, builds, world>>

\* The module is imported: the guard is false and main() is not called.
ImportModule ==
    /\ pc = "load"
    /\ name # "__main__"
    /\ pc' = "idle"
    /\ UNCHANGED <<name, ncalls, iter, i, steps, out, project, builds, world>>

\* The importer calls main().
CallMain ==
    /\ pc = "idle"
    /\ ncalls < MaxCalls
    /\ ncalls' = ncalls + 1
    /\ pc' = "main"
    /\ UNCHANGED <<name, iter, i, steps, out, project, builds, world>>

\* The importer calls update_project_file(BUILD_STEPS[k - 1]).
CallUpdateProjectFile ==
    /\ pc = "idle"
    /\ ncalls < MaxCalls
    /\ \E k \in 1..Len(steps) : Store(update_project_file(Mem, k))
    /\ ncalls' = ncalls + 1
    /\ UNCHANGED <<name, pc, iter, i, world>>

\* The importer calls test_build().
CallTestBuild ==
    /\ pc = "idle"
    /\ ncalls < MaxCalls
    /\ Store(test_build(Mem))
    /\ ncalls' = ncalls + 1
    /\ UNCHANGED <<name, pc, iter, i, world>>

\* main() prints its banner and creates the loop's iterator.
MainBanner ==
    /\ pc = "main"
    /\ Store(main_banner(Mem))
    /\ iter' = 0
    /\ pc' = "loop"
    /\ UNCHANGED <<name, ncalls, i, world>>

\* The for loop takes the next item and runs its body.
MainLoop ==
    /\ pc = "loop"
    /\ iter < Len(steps)
    /\ LET item == enumerate(steps, 1)[iter + 1]
       IN  /\ i' = item.i
           /\ Store(loop_body(Mem, item.i, iter + 1))
    /\ iter' = iter + 1
    /\ UNCHANGED <<name, pc, ncalls, world>>

\* The iterator is exhausted: main() returns.
MainReturn ==
    /\ pc = "loop"
    /\ iter = Len(steps)
    /\ pc' = IF name = "__main__" THEN "exit" ELSE "idle"
    /\ UNCHANGED <<name, ncalls, iter, i, steps, out, project, builds, world>>

Next ==
    \/ RunAsScript
    \/ ImportModule
    \/ CallMain
    \/ CallUpdateProjectFile
    \/ CallTestBuild
    \/ MainBanner
    \/ MainLoop
    \/ MainReturn

Spec == Init /\ [][Next]_vars

(***************************************************************************)
(* Vocabulary of the claims.                                               *)
(***************************************************************************)
LinesOf(o) == {o[p] : p \in 1..Len(o)}

IsHeader(l) == Len(l) = 4 /\ l[1] = "\n" /\ l[3] = ". "
IsFiles(l) == Len(l) >= 1 /\ l[1] = "   Files: "
IsFrameworks(l) == Len(l) >= 1 /\ l[1] = "   Frameworks: "
IsUpdating(l) == Len(l) = 2 /\ l[1] = "Updating project for "
IsTesting(l) == l = TestingLine

\* The "\n{i}. {name}" lines printed so far, in order.
Headers == SelectSeq(out, IsHeader)

\* The catalog position a header at place p of Headers must carry: every
\* call of main() runs to its end before the next one starts.
Expected(p) == ((p - 1) % Len(steps)) + 1

\* Lines that are neither banner, step listing nor placeholder notice: the
\* only place a verdict or culprit could be reported.
VerdictLines ==
    {l \in LinesOf(out) :
        ~ (\/ l = BannerLine
           \/ l = RuleLine
           \/ IsHeader(l) \/ IsFiles(l) \/ IsFrameworks(l)
           \/ IsUpdating(l) \/ IsTesting(l))}

Items(k) == Range(steps[k].files) \cup Range(steps[k].frameworks)

\* Modules and frameworks step k has and step k-1 has not.
NewItems(k) == IF k = 1 THEN Items(1) ELSE Items(k) \ Items(k - 1)

AllItems == UNION {Items(k) : k \in 1..Len(steps)}

ReportedItems == {x \in AllItems : \E l \in VerdictLines : x \in Range(l)}

\* Builds run on the configuration of step k.
Attempts(k) == Cardinality({b \in 1..Len(builds) : builds[b] = k})

\* Highest step whose configuration was applied, built and found good.
LastVerifiedIndex ==
    LET good == {k \in 1..Len(steps) :
                    /\ Attempts(k) > 0
                    /\ ~ (world.kind = "fail" /\ k >= world.k)}
    IN  IF good = {} THEN 0 ELSE CHOOSE k \in good : \A j \in good : j <= k

Positions(l) == {p \in 1..Len(out) : out[p] = l}

\* The step whose block of output contains position t (0: none yet).
BlockOf(t) ==
    LET before == SelectSeq(SubSeq(out, 1, t), IsHeader)
    IN  IF Len(before) = 0 THEN 0 ELSE Expected(Len(before))

ScriptRun == name = "__main__"
MainRunning == pc \in {"main", "loop"}
Added == SubSeq(out', Len(out) + 1, Len(out'))

(***************************************************************************)
(* C1: when every step's configuration builds, a run of main() ends with   *)
(* last_verified_index = len(steps) and with no culprit reported.          *)
(***************************************************************************)
C1_AllPassCompletes ==
    (ScriptRun /\ pc = "exit" /\ world.kind = "ok")
        => (LastVerifiedIndex = Len(steps) /\ VerdictLines = {})

(***************************************************************************)
(* C2: the first step's file list is non-empty and the file list of every  *)
(* step is an ordered prefix of the file list of the step after it.        *)
(***************************************************************************)
C2_FilesPrefixMonotone ==
    /\ Len(steps) >= 1
    /\ Len(steps[1].files) > 0
    /\ \A k \in 2..Len(steps) : IsPrefix(steps[k - 1].files, steps[k].files)

C2_Witness ==
    /\ pc = "loop"
    /\ iter >= 2
    /\ out[Len(out) - 1] = FilesLine(steps[iter])
    /\ Len(steps[iter].files) > Len(steps[iter - 1].files)

(***************************************************************************)
(* C3: every framework of a step is a framework of every later step.       *)
(***************************************************************************)
C3_FrameworksMonotone ==
    \A k \in 2..Len(steps) :
        Range(steps[k - 1].frameworks) \subseteq Range(steps[k].frameworks)

C3_Witness ==
    /\ pc = "loop"
    /\ iter >= 2
    /\ out[Len(out)] = FrameworksLine(steps[iter])
    /\ Len(steps[iter].frameworks) > Len(steps[iter - 1].frameworks)

(***************************************************************************)
(* C4: main() takes the steps in catalog order with indices 1, 2, 3, ...:  *)
(* the first header printed carries index 1 and the first step, each later *)
(* header the next index and the next step, and a finished run has gone    *)
(* through every step.                                                     *)
(***************************************************************************)
C4_StepsInOrder ==
    /\ \A p \in 1..Len(Headers) :
          Headers[p] = HeaderLine(Expected(p), steps[Expected(p)])
    /\ (pc = "loop" /\ iter > 0) => (i = iter /\ Len(Headers) % Len(steps) = iter % Len(steps))
    /\ (pc \in {"idle", "exit"}) => Len(Headers) % Len(steps) = 0

C4_Witness ==
    /\ pc = "loop"
    /\ iter = 3
    /\ Len(Headers) = 3
    /\ Headers[3][2] = "3"

(***************************************************************************)
(* C5: for every step main() has attempted, update_project_file was called *)
(* exactly once with that step, and test_build is only ever called for a   *)
(* step after that step's update_project_file call.                        *)
(***************************************************************************)
C5_ConfiguredOnceBeforeBuild ==
    ScriptRun =>
        /\ \A k \in 1..iter :
              Cardinality(Positions(UpdatingLine(steps[k]))) = 1
        /\ \A t \in Positions(TestingLine) :
              /\ BlockOf(t) # 0
              /\ \E u \in Positions(UpdatingLine(steps[BlockOf(t)])) :
                    u < t /\ BlockOf(u) = BlockOf(t)

(***************************************************************************)
(* C6: when step k is the first whose build fails, and it always fails,    *)
(* the run does not go past step k and ends with a verdict that names      *)
(* exactly one item new in step k, with last_verified_index = k - 1.       *)
(***************************************************************************)
C6_FailureIsNarrowed ==
    (ScriptRun /\ world.kind = "fail") =>
        /\ iter <= world.k
        /\ pc = "exit" =>
              /\ LastVerifiedIndex = world.k - 1
              /\ Cardinality(ReportedItems) = 1
              /\ ReportedItems \subseteq NewItems(world.k)

(***************************************************************************)
(* C7: a step whose build is inconclusive three times (the retry ceiling)  *)
(* and then succeeds has been built four times and is recorded as verified *)
(* by the time the run moves on; no step is built more than ceiling + 1    *)
(* times.                                                                  *)
(***************************************************************************)
C7_RetryThenSuccess ==
    /\ \A k \in 1..Len(steps) : Attempts(k) <= 3 + 1
    /\ (ScriptRun /\ world.kind = "flaky" /\ (iter > world.k \/ pc = "exit"))
          => (Attempts(world.k) = 3 + 1 /\ LastVerifiedIndex >= world.k)

(***************************************************************************)
(* C8: a step of main() changes neither the project file, nor the builds   *)
(* run, nor the catalog; it prints no update_project_file or test_build    *)
(* line, and a loop iteration prints exactly the step's header, files and  *)
(* frameworks lines.                                                       *)
(***************************************************************************)
C8_MainOnlyPrints ==
    [][MainRunning =>
          /\ project' = project
          /\ builds' = builds
          /\ steps' = steps
          /\ Len(out') >= Len(out)
          /\ SubSeq(out', 1, Len(out)) = out
          /\ \A p \in 1..Len(Added) :
                ~ IsUpdating(Added[p]) /\ ~ IsTesting(Added[p])
          /\ (pc = "loop" /\ iter' # iter) =>
                Added = << <<"\n", ToString(iter'), ". ", steps[iter'].name>>,
                           <<"   Files: ">> \o join(", ", steps[iter'].files),
                           <<"   Frameworks: ">>
                               \o join(", ", steps[iter'].frameworks) >>
    ]_vars

C8_Witness ==
    /\ ScriptRun
    /\ pc = "exit"
    /\ Len(out) = 2 + 3 * Len(steps)
    /\ project = 0
    /\ builds = <<>>

(***************************************************************************)
(* C9: the catalog never changes: whatever part of main() has run and      *)
(* whatever calls of update_project_file and test_build were made,         *)
(* BUILD_STEPS has the length, order, names, files and frameworks it had   *)
(* when the module was loaded.                                             *)
(***************************************************************************)
C9_CatalogReadOnly ==
    /\ Len(steps) = Len(BUILD_STEPS)
    /\ \A k \in 1..Len(BUILD_STEPS) :
          /\ steps[k].name = BUILD_STEPS[k].name
          /\ steps[k].files = BUILD_STEPS[k].files
          /\ steps[k].frameworks = BUILD_STEPS[k].frameworks

C9_Witness ==
    /\ pc = "idle"
    /\ \E l \in LinesOf(out) : IsUpdating(l)
    /\ Len(Headers) = Len(steps)

(***************************************************************************)
(* C10: no step repeats its predecessor: every step after the first adds   *)
(* a module or a framework (steps 9 and 10 included).                      *)
(***************************************************************************)
C10_NoNoOpStep ==
    /\ \A k \in 2..Len(steps) :
          \/ Range(steps[k].files) # Range(steps[k - 1].files)
          \/ Range(steps[k].frameworks) # Range(steps[k - 1].frameworks)
    /\ steps[10].files # steps[9].files

C10_Witness ==
    /\ pc = "loop"
    /\ iter = 10
    /\ out[Len(out) - 1] = FilesLine(steps[10])
    /\ "AppState.swift" \in NewItems(10)

====
